---- MODULE Spec2Model ----
(***************************************************************************)
(* fclean: the protected-path classifier (safelist.py), the safe deleter   *)
(* (cleaner.py), the tree scanner (scanner.py), the duplicate finder       *)
(* (rules/duplicate.py) and the clean command (cli.py).                    *)
(*                                                                         *)
(* A path is the sequence of its components below the filesystem anchor:   *)
(* <<>> is "/", <<"root", "a.txt">> is "/root/a.txt".                      *)
(***************************************************************************)
EXTENDS Integers, Sequences, FiniteSets, TLC

VARIABLES
    \* ---- scanner.scan ----
    system,           \* platform.system()
    tree,             \* the directory tree: what each entry is (fixed during a scan)
    root,             \* the root argument of scan
    reversed,         \* which of the two listing orders the directories give
    follow_symlinks,  \* keyword argument
    skip_hidden,      \* keyword argument
    respect_safelist, \* keyword argument
    on_progress,      \* TRUE when a progress callback is supplied
    workers,          \* keyword argument
    spc,              \* where scan stands
    walk,             \* _walk_files of the main thread: stack, current, entries left
    root_files,       \* _scan_parallel: root_files
    subdirs,          \* _scan_parallel: subdirs
    tasks,            \* _scan_parallel: one future per subdir, with its walker
    batch,            \* _process_entries: the list being added and the position in it
    result,           \* the ScanResult being built
    progress,         \* history: the (file_count, total_size) pairs on_progress got
    \* ---- cleaner.delete_files ----
    disk,         \* what each path is on disk right now
    files,        \* the input list of FileInfo records
    use_trash,    \* keyword argument
    dry_run,      \* keyword argument
    idx,          \* position of the for loop (1-based index of fi)
    pc,           \* where delete_files stands
    deleted,      \* result.deleted
    failed,       \* result.failed
    skipped,      \* result.skipped
    total_freed,  \* result.total_freed
    outcome,      \* history: per processed record, the list it went to
    calls,        \* history: every send2trash / os.remove call made
    \* ---- rules.duplicate.find_duplicates ----
    dup_files,        \* the files argument: FileInfo records (path, recorded size)
    content,          \* the bytes each path holds on disk (fixed during detection)
    unreadable,       \* the path whose read fails and the read that fails, if any
    min_size,         \* keyword argument
    dpc,              \* where find_duplicates stands
    candidates,       \* find_duplicates: candidates
    final_candidates, \* find_duplicates: final_candidates
    by_full_hash,     \* find_duplicates: by_full_hash, in insertion order
    results,          \* find_duplicates: results
    opened,           \* history: every file opened, with the hash it was opened for
    \* ---- safelist.is_safe ----
    safe_path,    \* the path argument
    safe_kind,    \* what the path is on disk
    safe_system,  \* platform.system()
    safe_pc,      \* where is_safe stands
    safe_result,  \* the value is_safe returned
    \* ---- cli.clean ----
    args,        \* the command line: config, filters, execute, yes, trash
    rules,       \* the targets: the path argument with the command line's
                 \* filters, or the rules of the config file
    answer,      \* what the user answers when Confirm.ask is called
    cpc,         \* where clean stands
    rule_idx,    \* _clean_from_config: position of the for loop over cfg.rules
    seen_paths,  \* the files selected so far (files / seen_paths)
    exit_code,   \* the exit code of the command
    cli_log      \* history: the calls made and the messages printed, in order

cleanVars == <<disk, files, use_trash, dry_run, idx, pc, deleted, failed,
               skipped, total_freed, outcome, calls>>

scanVars == <<system, tree, root, reversed, follow_symlinks, skip_hidden, respect_safelist,
              on_progress, workers, spc, walk, root_files, subdirs, tasks,
              batch, result, progress>>

dupVars == <<dup_files, content, unreadable, min_size, dpc, candidates,
             final_candidates, by_full_hash, results, opened>>

safeVars == <<safe_path, safe_kind, safe_system, safe_pc, safe_result>>

cliVars == <<args, rules, answer, cpc, rule_idx, seen_paths, exit_code, cli_log>>

vars == <<scanVars, cleanVars, dupVars, safeVars, cliVars>>

\* the arguments and the surroundings of a scan, which no step of it changes
ScanFrame == <<system, tree, root, reversed, follow_symlinks, skip_hidden, respect_safelist,
               on_progress, workers>>


----------------------------------------------------------------------------
(* Bounds *)

MaxInput == 2      \* longest input list handed to delete_files
MaxWorkers == 2    \* largest workers argument handed to scan

\* scanner.py line 71 sets 500; the trees of the model hold a handful of files,
\* so the batch size is scaled down to let batch boundaries occur
_PROGRESS_INTERVAL == 2

----------------------------------------------------------------------------
(* safelist.py *)

_SAFE_DIRS_WINDOWS ==
    {"windows", "system32", "syswow64", "winsxs", "program files",
     "program files (x86)", "programdata", "recovery", "boot",
     "$recycle.bin", "system volume information"}

_SAFE_DIRS_LINUX ==
    {"bin", "sbin", "lib", "lib64", "usr", "etc", "boot", "proc", "sys",
     "dev", "run", "snap"}

_SAFE_DIRS_MACOS ==
    {"system", "library", "applications", "bin", "sbin", "usr", "etc",
     "var", "private", "cores"}

_SENSITIVE_USER_DIRS ==
    {".ssh", ".gnupg", ".aws", ".config", ".kube", ".docker",
     ".password-store", ".mozilla", ".thunderbird"}

_SAFE_FILES ==
    {"ntldr", "bootmgr", "pagefile.sys", "hiberfil.sys", "swapfile.sys",
     ".bashrc", ".bash_profile", ".profile", ".zshrc", ".gitconfig"}

Systems == {"Linux", "Darwin", "Windows"}

_get_safe_dirs(sys) ==
    IF sys = "Windows" THEN _SAFE_DIRS_WINDOWS
    ELSE IF sys = "Darwin" THEN _SAFE_DIRS_MACOS \cup _SAFE_DIRS_LINUX
    ELSE _SAFE_DIRS_LINUX

\* str.lower() on the component names that occur in the model
lower(n) ==
    CASE n = "ETC" -> "etc"
      [] n = "Etc" -> "etc"
      [] n = ".BASHRC" -> ".bashrc"
      [] n = ".SSH" -> ".ssh"
      [] n = "Windows" -> "windows"
      [] OTHER -> n

\* Path.home(): the home directory of the user who runs the program
home == <<"root">>

\* Path(parent.anchor)
anchor == <<>>

\* PurePath.name: the last component, "" for the anchor
name(p) == IF p = <<>> THEN "" ELSE p[Len(p)]

\* PurePath.parent: the anchor is its own parent
parent(p) == IF p = <<>> THEN <<>> ELSE SubSeq(p, 1, Len(p) - 1)

\* PurePath.parents: every proper ancestor, the anchor included
parents(p) == {SubSeq(p, 1, k) : k \in 0..(Len(p) - 1)}

is_safe_resolved_m(resolved, sys) ==
    \/ lower(name(resolved)) \in _SAFE_FILES
    \/ \E par \in parents(resolved) : lower(name(par)) \in _get_safe_dirs(sys)
    \/ \E par \in parents(resolved) :
          /\ name(par) \in _SENSITIVE_USER_DIRS
          /\ parent(par) = home

\* is_safe after path.resolve(): the three rules on the resolved path
is_safe_resolved(resolved, sys) ==
    \/ lower(name(resolved)) \in _SAFE_FILES
    \/ \E par \in parents(resolved) :
          /\ lower(name(par)) \in _get_safe_dirs(sys)
          /\ parent(par) = anchor
    \/ \E par \in parents(resolved) :
          /\ name(par) \in _SENSITIVE_USER_DIRS
          /\ parent(par) = home

----------------------------------------------------------------------------
(* cleaner.py: the filesystem delete_files works on *)

PlainPath == <<"tmp", "a.txt">>
RcPath == <<"root", ".bashrc">>
CleanPaths == {PlainPath, RcPath}

\* where a symbolic link swapped in at a path points to
SwapTarget == <<"etc", "shadow">>

\* reg: regular file; symlink: symbolic link; dir: directory;
\* other: fifo, socket or device; absent: no such file;
\* denied: the parent directory refuses search permission (lstat gives EACCES)
Kinds == {"reg", "symlink", "dir", "other", "absent", "denied"}

\* Path.resolve() of a path whose parents are real directories
resolve(p, kind) == IF kind = "symlink" THEN SwapTarget ELSE p

is_safe(p, kind, sys) == is_safe_resolved(resolve(p, kind), sys)

\* the recorded sizes (st_size at scan time) the input records carry
Sizes == {1, 2}

FileInfo == [path : CleanPaths, size : Sizes]

RECURSIVE SeqsUpTo(_, _)
SeqsUpTo(S, n) ==
    IF n = 0 THEN {<<>>}
    ELSE LET shorter == SeqsUpTo(S, n - 1)
         IN shorter \cup {Append(s, x) : s \in {t \in shorter : Len(t) = n - 1}, x \in S}

RECURSIVE SumSizes(_)
SumSizes(recs) ==
    IF recs = <<>> THEN 0 ELSE recs[1].size + SumSizes(Tail(recs))

InitClean ==
    /\ disk = [p \in CleanPaths |-> "reg"]
    /\ files \in SeqsUpTo(FileInfo, MaxInput)
    /\ use_trash \in BOOLEAN
    /\ dry_run \in BOOLEAN
    /\ idx = 1
    /\ pc = "loop"
    /\ deleted = <<>>
    /\ failed = <<>>
    /\ skipped = <<>>
    /\ total_freed = 0
    /\ outcome = <<>>
    /\ calls = <<>>

fi == files[idx]

InLoop == pc = "loop" /\ idx <= Len(files)

dry_run_branch_m(dr, trash) == dr /\ trash

\* line 41: if dry_run
dry_run_branch(dr, trash) == dr

add_freed_m(total, size) == size

\* lines 43, 67: result.total_freed += fi.size
add_freed(total, size) == total + size

record_skip_m(list, path, reason) == list

\* lines 48, 55: result.skipped.append((fi.path, reason))
record_skip(list, path, reason) == Append(list, <<path, reason>>)

\* lines 41-44
delete_files_dry_run ==
    /\ InLoop
    /\ dry_run_branch(dry_run, use_trash)
    /\ deleted' = Append(deleted, fi.path)
    /\ total_freed' = add_freed(total_freed, fi.size)
    /\ outcome' = Append(outcome, "deleted")
    /\ idx' = idx + 1
    /\ UNCHANGED <<scanVars, dupVars, safeVars, cliVars, disk, files, use_trash, dry_run, pc, failed, skipped, calls>>

\* lines 46-49: fi.path.is_symlink().  pathlib swallows ENOENT/ENOTDIR/EBADF/ELOOP
\* only (Python <= 3.12), so EACCES propagates out of delete_files; from 3.13 on
\* is_symlink returns False on every OSError.
delete_files_is_symlink ==
    /\ InLoop
    /\ ~dry_run_branch(dry_run, use_trash)
    /\ LET k == disk[fi.path] IN
       IF k = "symlink"
       THEN /\ skipped' = record_skip(skipped, fi.path, "symlink")
            /\ outcome' = Append(outcome, "skipped")
            /\ idx' = idx + 1
            /\ pc' = "loop"
       ELSE /\ \/ pc' = "lstat"
               \/ k = "denied" /\ pc' = "raised"
            /\ UNCHANGED <<scanVars, skipped, outcome, idx>>
    /\ UNCHANGED <<scanVars, dupVars, safeVars, cliVars, disk, files, use_trash, dry_run, deleted, failed, total_freed, calls>>

\* str(e) of the OSError the path gives
errtext(k) ==
    CASE k = "absent" -> "ENOENT"
      [] k = "denied" -> "EACCES"
      [] k = "dir" -> "EISDIR"
      [] OTHER -> "EPERM"

lstat_raises_m(k) == k = "denied"

\* line 53: fi.path.lstat() raises OSError
lstat_raises(k) == k \in {"absent", "denied"}

S_ISREG_m(k) == k \in {"reg", "other"}

\* line 54: stat.S_ISREG(current.st_mode); lstat does not follow a link
S_ISREG(k) == k = "reg"

\* lines 51-59: lstat and the S_ISREG test
delete_files_lstat ==
    /\ pc = "lstat"
    /\ LET k == disk[fi.path]
       IN IF lstat_raises(k)
          THEN /\ failed' = Append(failed, <<fi.path, errtext(k)>>)
               /\ outcome' = Append(outcome, "failed")
               /\ idx' = idx + 1
               /\ pc' = "loop"
               /\ UNCHANGED skipped
          ELSE IF ~S_ISREG(k)
          THEN /\ skipped' = record_skip(skipped, fi.path, "no longer a regular file")
               /\ outcome' = Append(outcome, "skipped")
               /\ idx' = idx + 1
               /\ pc' = "loop"
               /\ UNCHANGED failed
          ELSE /\ pc' = "act"
               /\ UNCHANGED <<scanVars, failed, skipped, outcome, idx>>
    /\ UNCHANGED <<scanVars, dupVars, safeVars, cliVars, disk, files, use_trash, dry_run, deleted, total_freed, calls>>

\* the kinds of object os.remove (unlink) can remove: anything but a directory
Unlinkable == {"reg", "symlink", "other"}

\* the kinds of object send2trash can move to the trash
Trashable == {"reg", "symlink", "other", "dir"}

primitive_m(trash) == "os.remove"

\* lines 62-65: the primitive is chosen by use_trash alone
primitive(trash) == IF trash THEN "send2trash" ELSE "os.remove"

CanRemove(prim, k) ==
    IF prim = "send2trash" THEN k \in Trashable ELSE k \in Unlinkable

\* lines 61-69: the removal itself; it may fail with an OSError on any object
delete_files_remove ==
    /\ pc = "act"
    /\ LET k == disk[fi.path]
           prim == primitive(use_trash)
       IN \E ok \in {b \in BOOLEAN : b => CanRemove(prim, k)} :
            /\ calls' = Append(calls, [rec |-> idx, prim |-> prim, kind |-> k, ok |-> ok])
            /\ IF ok
               THEN /\ disk' = [disk EXCEPT ![fi.path] = "absent"]
                    /\ deleted' = Append(deleted, fi.path)
                    /\ total_freed' = add_freed(total_freed, fi.size)
                    /\ outcome' = Append(outcome, "deleted")
                    /\ UNCHANGED failed
               ELSE /\ failed' = Append(failed, <<fi.path, errtext(k)>>)
                    /\ outcome' = Append(outcome, "failed")
                    /\ UNCHANGED <<scanVars, disk, deleted, total_freed>>
    /\ idx' = idx + 1
    /\ pc' = "loop"
    /\ UNCHANGED <<scanVars, dupVars, safeVars, cliVars, files, use_trash, dry_run, skipped>>

\* line 71
delete_files_return ==
    /\ pc = "loop"
    /\ idx > Len(files)
    /\ pc' = "returned"
    /\ UNCHANGED <<scanVars, dupVars, safeVars, cliVars, disk, files, use_trash, dry_run, idx, deleted, failed,
                   skipped, total_freed, outcome, calls>>

\* another process replaces, retypes or removes the path the deleter is at
\* (a change to a path the deleter is not at is seen only when it gets there)
OtherProcess ==
    /\ pc \in {"loop", "lstat", "act"}
    /\ idx <= Len(files)
    /\ \E k \in Kinds \ {disk[fi.path]} :
          disk' = [disk EXCEPT ![fi.path] = k]
    /\ UNCHANGED <<scanVars, dupVars, safeVars, cliVars, files, use_trash, dry_run, idx, pc, deleted, failed,
                   skipped, total_freed, outcome, calls>>

NextClean ==
    \/ delete_files_dry_run
    \/ delete_files_is_symlink
    \/ delete_files_lstat
    \/ delete_files_remove
    \/ delete_files_return
    \/ OtherProcess

----------------------------------------------------------------------------
(* scanner.py: the tree scan works on *)

\* the directory the tree of the model hangs from
ScanRoot == <<>>

\* a path nothing exists at
MissingRoot == <<"nope">>

\* a path a regular file is at
FileRoot == <<"r.txt">>

\* the roots scan is called with
Roots == {ScanRoot, MissingRoot, FileRoot}

\* the entries each real directory holds, in one of the two orders
\* os.scandir lists them in
ChildSeq(d) ==
    CASE d = <<>> -> <<"etc", "root", "tmp", "lnk", "r.txt">>
      [] d = <<"etc">> -> <<"hosts">>
      [] d = <<"root">> -> <<"a.txt", ".bashrc", ".ssh">>
      [] d = <<"root", ".ssh">> -> <<"id">>
      [] d = <<"tmp">> -> <<"b.txt">>
      [] OTHER -> <<>>

RealDirs == {<<>>, <<"etc">>, <<"root">>, <<"root", ".ssh">>, <<"tmp">>}

Entries == UNION {{d \o <<ChildSeq(d)[i]>> : i \in DOMAIN ChildSeq(d)} : d \in RealDirs}

\* file: regular file; file_nostat: regular file whose entry.stat() raises;
\* dir: directory; dir_noread: directory os.scandir cannot open;
\* link_file / link_dir: symbolic link to a regular file / to a directory
KindsOf(e) ==
    CASE e = <<"tmp">> -> {"dir", "dir_noread"}
      [] e = <<"tmp", "b.txt">> -> {"file", "file_nostat", "link_file"}
      [] e = <<"lnk">> -> {"link_dir"}
      [] e \in RealDirs -> {"dir"}
      [] OTHER -> {"file"}

\* where the links of the tree point
LinkDirTarget == <<"tmp">>
LinkFileTarget == <<"root", ".bashrc">>

\* st_size of each regular file: distinct powers of two, so that a sum of
\* sizes tells which files were added
SizeOf(e) ==
    CASE e = <<"etc", "hosts">> -> 1
      [] e = <<"root", "a.txt">> -> 2
      [] e = <<"root", ".bashrc">> -> 4
      [] e = <<"root", ".ssh", "id">> -> 8
      [] e = <<"tmp", "b.txt">> -> 16
      [] e = <<"r.txt">> -> 32
      [] OTHER -> 0

\* str.startswith(".") on the entry names of the tree
startswith_dot(n) == n \in {".bashrc", ".ssh"}

\* the node a directory entry names: links on the way to it are followed,
\* the entry itself is not
entry_of(p) ==
    IF Len(p) >= 2 /\ p[1] = "lnk" /\ tree[<<"lnk">>] = "link_dir"
    THEN LinkDirTarget \o SubSeq(p, 2, Len(p))
    ELSE p

\* the node opening a path lands on: every link followed, the last included
real(p) ==
    IF Len(p) >= 1 /\ p[1] = "lnk" /\ tree[<<"lnk">>] = "link_dir"
    THEN LinkDirTarget \o SubSeq(p, 2, Len(p))
    ELSE p

\* Path.resolve() in the tree: every link on the way replaced by its target
resolve_entry(p) ==
    IF real(p) \in Entries /\ tree[real(p)] = "link_file" THEN LinkFileTarget
    ELSE real(p)

\* is_safe(file_path) as the scanner calls it
is_safe_entry(p) == is_safe_resolved(resolve_entry(p), system)

\* os.scandir(d) succeeds
can_scandir(d) ==
    \/ real(d) = ScanRoot
    \/ real(d) \in Entries /\ tree[real(d)] = "dir"

Reverse(q) == [i \in 1..Len(q) |-> q[Len(q) + 1 - i]]

\* the names os.scandir(d) yields, in the order the directory gives them
listing(d) == IF reversed THEN Reverse(ChildSeq(real(d))) ELSE ChildSeq(real(d))

is_dir_m(p, follow) == tree[entry_of(p)] \in {"dir", "dir_noread", "link_dir"}

\* DirEntry.is_dir(follow_symlinks=follow)
is_dir(p, follow) ==
    \/ tree[entry_of(p)] \in {"dir", "dir_noread"}
    \/ follow /\ tree[entry_of(p)] = "link_dir"

\* DirEntry.is_file(follow_symlinks=follow)
is_file(p, follow) ==
    \/ tree[entry_of(p)] \in {"file", "file_nostat"}
    \/ follow /\ tree[entry_of(p)] = "link_file"

\* lines 230-234: (Path(entry.path), st), st None when entry.stat raises
stat_entry(p, follow) ==
    LET k == tree[entry_of(p)] IN
    IF k = "file_nostat" THEN [path |-> p, ok |-> FALSE, size |-> 0]
    ELSE IF k = "link_file" THEN [path |-> p, ok |-> TRUE, size |-> SizeOf(LinkFileTarget)]
    ELSE [path |-> p, ok |-> TRUE, size |-> SizeOf(real(p))]

NoWalk == [stack |-> <<>>, current |-> <<>>, pending |-> <<>>]

EmptyResult == [files |-> <<>>, total_size |-> 0, error_count |-> 0, skipped_safe |-> 0]

NoBatch == [list |-> <<>>, pos |-> 1, task |-> 0]

\* ScanResult.file_count
file_count(res) == Len(res.files)

add_entry_silent(res, e, safelist) ==
    IF safelist /\ is_safe_entry(e.path)
    THEN res
    ELSE IF ~e.ok
    THEN [res EXCEPT !.error_count = @ + 1]
    ELSE [res EXCEPT !.files = Append(@, [path |-> e.path, size |-> e.size]),
                     !.total_size = @ + e.size]

add_entry_m(res, e, safelist) ==
    IF safelist /\ is_safe_entry(e.path)
    THEN [res EXCEPT !.skipped_safe = @ + 1]
    ELSE IF ~e.ok
    THEN [res EXCEPT !.error_count = @ + 1, !.total_size = @ + 1]
    ELSE [res EXCEPT !.files = Append(@, [path |-> e.path, size |-> e.size]),
                     !.total_size = @ + e.size]

\* lines 108-115 and 131-138: one entry added to the result
add_entry(res, e, safelist) ==
    IF safelist /\ is_safe_entry(e.path)
    THEN [res EXCEPT !.skipped_safe = @ + 1]
    ELSE IF ~e.ok
    THEN [res EXCEPT !.error_count = @ + 1]
    ELSE [res EXCEPT !.files = Append(@, [path |-> e.path, size |-> e.size]),
                     !.total_size = @ + e.size]

RECURSIVE add_all(_, _)
\* the loop of _scan_single run to its end over the entries of list
add_all(res, list) ==
    IF list = <<>> THEN res
    ELSE add_all(add_entry(res, Head(list), respect_safelist), Tail(list))

report_m(log, before, after, cb) ==
    IF cb /\ file_count(after) > 0 /\ file_count(after) % _PROGRESS_INTERVAL = 0
    THEN Append(log, <<file_count(after), after.total_size>>)
    ELSE log

\* lines 116-117 and 139-140: the callback fires after an append that brings
\* file_count to a multiple of the interval
report(log, before, after, cb) ==
    IF /\ cb
       /\ file_count(after) # file_count(before)
       /\ file_count(after) % _PROGRESS_INTERVAL = 0
    THEN Append(log, <<file_count(after), after.total_size>>)
    ELSE log

\* every tree the entries' kinds allow
Trees ==
    {[e \in Entries |->
         IF e = <<"tmp">> THEN a
         ELSE IF e = <<"tmp", "b.txt">> THEN b
         ELSE CHOOSE k \in KindsOf(e) : TRUE] :
       a \in KindsOf(<<"tmp">>), b \in KindsOf(<<"tmp", "b.txt">>)}

InitScan ==
    /\ system \in Systems
    /\ tree \in Trees
    /\ root \in Roots
    /\ reversed \in BOOLEAN
    /\ follow_symlinks \in BOOLEAN
    /\ skip_hidden \in BOOLEAN
    /\ respect_safelist \in BOOLEAN
    /\ on_progress \in BOOLEAN
    /\ workers \in 1..MaxWorkers
    /\ spc = "scan"
    /\ walk = NoWalk
    /\ root_files = <<>>
    /\ subdirs = <<>>
    /\ tasks = <<>>
    /\ batch = NoBatch
    /\ result = EmptyResult
    /\ progress = <<>>

\* lines 93-97, 129, 166-172, 218: scan dispatches on workers; the new walk starts
scan ==
    /\ spc = "scan"
    /\ IF workers <= 1
       THEN /\ spc' = "single"
            /\ walk' = [NoWalk EXCEPT !.stack = <<root>>]
       ELSE /\ spc' = "phase1"
            /\ walk' = [NoWalk EXCEPT !.current = root,
                                      !.pending = IF can_scandir(root)
                                                  THEN listing(root) ELSE <<>>]
    /\ UNCHANGED <<ScanFrame, root_files, subdirs, tasks, batch, result, progress,
                   cleanVars, dupVars, safeVars, cliVars>>

pop_dir_m(w) ==
    LET d == w.stack[Len(w.stack)]
        rest == SubSeq(w.stack, 1, Len(w.stack) - 2)
    IN [stack |-> rest, current |-> d,
        pending |-> IF can_scandir(d) THEN listing(d) ELSE <<>>]

\* lines 219-222, 237-238: pop a directory and open it; one that cannot be
\* opened is passed over
pop_dir(w) ==
    LET d == w.stack[Len(w.stack)]
        rest == SubSeq(w.stack, 1, Len(w.stack) - 1)
    IN [stack |-> rest, current |-> d,
        pending |-> IF can_scandir(d) THEN listing(d) ELSE <<>>]

entry_class_m(p, n) ==
    IF is_dir(p, follow_symlinks) THEN "dir"
    ELSE IF skip_hidden /\ startswith_dot(n) THEN "hidden"
    ELSE IF is_file(p, follow_symlinks) THEN "file"
    ELSE "none"

\* what _walk_files does with one directory entry
\* lines 224-225: hidden; 227-228: directory; 229-234: file; else nothing
entry_class(p, n) ==
    IF skip_hidden /\ startswith_dot(n) THEN "hidden"
    ELSE IF is_dir(p, follow_symlinks) THEN "dir"
    ELSE IF is_file(p, follow_symlinks) THEN "file"
    ELSE "none"

\* lines 223-236: the next entry of the open directory; a directory is
\* pushed, a file is yielded with its stat result
next_entry(w) ==
    LET n == Head(w.pending)
        p == w.current \o <<n>>
        c == entry_class(p, n)
    IN [walk |-> [w EXCEPT !.pending = Tail(@),
                           !.stack = IF c = "dir" THEN Append(@, p) ELSE @],
        yield |-> IF c = "file" THEN <<stat_entry(p, follow_symlinks)>> ELSE <<>>]

RECURSIVE _walk_files(_, _)
\* lines 218-238: the rest of the walk of w, after the entries in out
\* (each step's outcome is bound to a name and used from there)
_walk_files(w, out) ==
    IF w.pending # <<>>
    THEN CHOOSE rest \in {_walk_files(step.walk, out \o step.yield) :
                             step \in {next_entry(w)}} : TRUE
    ELSE IF w.stack # <<>>
    THEN CHOOSE rest \in {_walk_files(popped, out) : popped \in {pop_dir(w)}} : TRUE
    ELSE out

_walk_subtree_m(d) ==
    SelectSeq(_walk_files([NoWalk EXCEPT !.stack = <<d>>], <<>>),
              LAMBDA e : Len(e.path) = Len(d) + 1)

\* lines 144-153: list(_walk_files(root, ...))
_walk_subtree(d) == _walk_files([NoWalk EXCEPT !.stack = <<d>>], <<>>)

\* lines 219-222 of _walk_files under _scan_single
scan_single_pop ==
    /\ spc = "single"
    /\ walk.pending = <<>>
    /\ walk.stack # <<>>
    /\ walk' = pop_dir(walk)
    /\ UNCHANGED <<ScanFrame, spc, root_files, subdirs, tasks, batch, result,
                   progress, cleanVars, dupVars, safeVars, cliVars>>

\* lines 223-236 of _walk_files with the loop body of _scan_single (131-140)
\* run on what it yields
scan_single_entry ==
    /\ spc = "single"
    /\ walk.pending # <<>>
    /\ LET step == next_entry(walk)
           after == add_entry(result, step.yield[1], respect_safelist)
       IN /\ walk' = step.walk
          /\ result' = IF step.yield # <<>> THEN after ELSE result
          /\ progress' = IF step.yield # <<>>
                         THEN report(progress, result, after, on_progress)
                         ELSE progress
    /\ UNCHANGED <<ScanFrame, spc, root_files, subdirs, tasks, batch, cleanVars, dupVars, safeVars, cliVars>>

\* line 141
scan_single_return ==
    /\ spc = "single"
    /\ walk.pending = <<>>
    /\ walk.stack = <<>>
    /\ spc' = "returned"
    /\ UNCHANGED <<ScanFrame, walk, root_files, subdirs, tasks, batch, result,
                   progress, cleanVars, dupVars, safeVars, cliVars>>

\* lines 173-186: one entry of the root listing, in the main thread
scan_parallel_root_entry ==
    /\ spc = "phase1"
    /\ walk.pending # <<>>
    /\ LET n == Head(walk.pending)
           p == walk.current \o <<n>>
           c == entry_class(p, n)
       IN /\ walk' = [walk EXCEPT !.pending = Tail(@)]
          /\ subdirs' = IF c = "dir" THEN Append(subdirs, p) ELSE subdirs
          /\ root_files' = IF c = "file"
                           THEN Append(root_files, stat_entry(p, follow_symlinks))
                           ELSE root_files
    /\ UNCHANGED <<ScanFrame, spc, tasks, batch, result, progress, cleanVars, dupVars, safeVars, cliVars>>

\* line 190: _process_entries(result, root_files, ...) is entered
scan_parallel_process_root ==
    /\ spc = "phase1"
    /\ walk.pending = <<>>
    /\ batch' = [list |-> root_files, pos |-> 1, task |-> 0]
    /\ spc' = "root_entries"
    /\ UNCHANGED <<ScanFrame, walk, root_files, subdirs, tasks, result, progress,
                   cleanVars, dupVars, safeVars, cliVars>>

\* lines 107-117: one turn of the loop of _process_entries
_process_entries ==
    /\ spc \in {"root_entries", "merge"}
    /\ batch.pos <= Len(batch.list)
    /\ LET after == add_entry(result, batch.list[batch.pos], respect_safelist)
       IN /\ result' = after
          /\ progress' = report(progress, result, after, on_progress)
    /\ batch' = [batch EXCEPT !.pos = @ + 1]
    /\ UNCHANGED <<ScanFrame, spc, walk, root_files, subdirs, tasks, cleanVars, dupVars, safeVars, cliVars>>

\* lines 192-200: return when there is no subdirectory, else one future per
\* subdirectory is submitted to the pool
scan_parallel_submit ==
    /\ spc = "root_entries"
    /\ batch.pos > Len(batch.list)
    /\ IF subdirs = <<>>
       THEN /\ spc' = "returned"
            /\ UNCHANGED tasks
       ELSE /\ spc' = "phase2"
            /\ tasks' = [i \in 1..Len(subdirs) |->
                            [state |-> "queued", out |-> <<>>]]
    /\ batch' = NoBatch
    /\ UNCHANGED <<ScanFrame, walk, root_files, subdirs, result, progress, cleanVars, dupVars, safeVars, cliVars>>

Running == {i \in DOMAIN tasks : tasks[i].state = "running"}

\* ThreadPoolExecutor(max_workers=workers): a free thread takes the oldest
\* queued future
worker_start(i) ==
    /\ spc \in {"phase2", "merge"}
    /\ tasks[i].state = "queued"
    /\ \A j \in 1..(i - 1) : tasks[j].state # "queued"
    /\ Cardinality(Running) < workers
    /\ tasks' = [tasks EXCEPT ![i].state = "running"]
    /\ UNCHANGED <<ScanFrame, spc, walk, root_files, subdirs, batch, result,
                   progress, cleanVars, dupVars, safeVars, cliVars>>

worker_done_m(i) ==
    /\ tasks[i].state = "running"
    /\ tasks' = [tasks EXCEPT ![i].state = "done",
                              ![i].out = _walk_subtree(subdirs[i])]
    /\ result' = add_all(result, _walk_subtree(subdirs[i]))
    /\ UNCHANGED <<ScanFrame, spc, walk, root_files, subdirs, batch,
                   progress, cleanVars, dupVars, safeVars, cliVars>>

\* lines 144-153: the worker walks its subtree into a list of its own and
\* returns it; the future is done.  (The walk reads the tree only and writes
\* nothing another thread reads before the future is done, so its steps are
\* taken as one.)
worker_done(i) ==
    /\ tasks[i].state = "running"
    /\ tasks' = [tasks EXCEPT ![i].state = "done",
                              ![i].out = _walk_subtree(subdirs[i])]
    /\ UNCHANGED <<ScanFrame, spc, walk, root_files, subdirs, batch, result,
                   progress, cleanVars, dupVars, safeVars, cliVars>>

\* lines 201-202: as_completed hands over a finished future and
\* _process_entries is entered with its list
scan_parallel_merge ==
    /\ spc = "phase2"
    /\ \E i \in DOMAIN tasks :
         /\ tasks[i].state = "done"
         /\ batch' = [list |-> tasks[i].out, pos |-> 1, task |-> i]
         /\ tasks' = [tasks EXCEPT ![i].state = "merging"]
    /\ spc' = "merge"
    /\ UNCHANGED <<ScanFrame, walk, root_files, subdirs, result, progress, cleanVars, dupVars, safeVars, cliVars>>

\* line 202: _process_entries returns to the as_completed loop
scan_parallel_merged ==
    /\ spc = "merge"
    /\ batch.pos > Len(batch.list)
    /\ tasks' = [tasks EXCEPT ![batch.task].state = "merged"]
    /\ batch' = NoBatch
    /\ spc' = "phase2"
    /\ UNCHANGED <<ScanFrame, walk, root_files, subdirs, result, progress, cleanVars, dupVars, safeVars, cliVars>>

\* line 204
scan_parallel_return ==
    /\ spc = "phase2"
    /\ \A i \in DOMAIN tasks : tasks[i].state = "merged"
    /\ spc' = "returned"
    /\ UNCHANGED <<ScanFrame, walk, root_files, subdirs, tasks, batch, result,
                   progress, cleanVars, dupVars, safeVars, cliVars>>

----------------------------------------------------------------------------
(* rules/duplicate.py: find_duplicates *)

\* the longest input list
MaxRecords == 4

\* line 13 (4096 in the source): the bytes the quick hash reads
_QUICK_HASH_SIZE == 1

\* line 15 (65536 in the source): the bytes one read of the full hash takes
_CHUNK_SIZE == 1

PathNames == <<"a", "b", "c", "d", "e", "f">>

\* the i-th record of an input list is about the i-th path
DupPaths == {PathNames[i] : i \in 1..MaxRecords}

\* a file is its bytes; One is one byte long, Two and Other share their first
\* byte and differ in the second, Collider differs from Two in the second
\* byte too and has the digest of Two
One == <<1>>
Two == <<0, 1>>
Other == <<0, 2>>
Collider == <<0, 3>>
Contents == {One, Two, Other, Collider}

\* the empty file
Empty == <<>>

\* the sizes a record can carry: the file's size when it was scanned
DupSizes == {1, 2}

\* xxhash.xxh3_64(data).hexdigest(): 64 bits for data of any length, so
\* distinct data with one digest exist; a digest is written as the data the
\* model takes for it
xxh3_64(data) == IF data = Collider THEN Two ELSE data

None == [ok |-> FALSE, digest |-> <<>>]

\* f.read(n) at offset pos (0-based) of an open file
read(path, pos, n) ==
    SubSeq(content[path], pos + 1,
           IF pos + n < Len(content[path]) THEN pos + n ELSE Len(content[path]))

\* lines 36-43
_hash_partial(path) ==
    IF unreadable = <<path, "partial">> THEN None
    ELSE [ok |-> TRUE, digest |-> xxh3_64(read(path, 0, _QUICK_HASH_SIZE))]

RECURSIVE read_chunks(_, _, _)
\* lines 51-55: the chunks read until an empty one, in the order h.update gets them
read_chunks(path, pos, data) ==
    LET chunk == read(path, pos, _CHUNK_SIZE) IN
    IF chunk = <<>> THEN data
    ELSE read_chunks(path, pos + Len(chunk), data \o chunk)

\* lines 46-58
_hash_full(path) ==
    IF unreadable = <<path, "full">> THEN None
    ELSE [ok |-> TRUE, digest |-> xxh3_64(read_chunks(path, 0, <<>>))]

\* defaultdict(list) as the sequence of its (key, list) items in insertion
\* order; d[key].append(f)
dict_append(d, key, f) ==
    IF \E i \in DOMAIN d : d[i].key = key
    THEN [i \in DOMAIN d |-> IF d[i].key = key
                             THEN [d[i] EXCEPT !.group = Append(@, f)]
                             ELSE d[i]]
    ELSE Append(d, [key |-> key, group |-> <<f>>])

RECURSIVE extend_groups_m(_)
extend_groups_m(d) ==
    IF d = <<>> THEN <<>> ELSE Head(d).group \o extend_groups_m(Tail(d))

RECURSIVE extend_groups(_)
\* lines 82-85, 97-100: the lists of two and more, concatenated in dict order
extend_groups(d) ==
    IF d = <<>> THEN <<>>
    ELSE (IF Len(Head(d).group) >= 2 THEN Head(d).group ELSE <<>>)
            \o extend_groups(Tail(d))

RECURSIVE group_by_size_m(_, _, _)
group_by_size_m(list, min, by_size) ==
    IF list = <<>> THEN by_size
    ELSE group_by_size_m(Tail(list), min,
                         dict_append(by_size, Head(list).size, Head(list)))

RECURSIVE group_by_size(_, _, _)
\* lines 77-80
group_by_size(list, min, by_size) ==
    IF list = <<>> THEN by_size
    ELSE group_by_size(Tail(list), min,
                       IF Head(list).size >= min
                       THEN dict_append(by_size, Head(list).size, Head(list))
                       ELSE by_size)

\* line 95: the key of by_quick_hash
quick_key(f, h) == <<f.size, h.digest>>

RECURSIVE group_by_quick_hash(_, _)
\* lines 91-95
group_by_quick_hash(list, by_quick_hash) ==
    IF list = <<>> THEN by_quick_hash
    ELSE LET h == _hash_partial(Head(list).path) IN
         group_by_quick_hash(Tail(list),
                             IF h.ok
                             THEN dict_append(by_quick_hash, quick_key(Head(list), h),
                                              Head(list))
                             ELSE by_quick_hash)

RECURSIVE group_by_full_hash(_, _)
\* lines 106-110
group_by_full_hash(list, d) ==
    IF list = <<>> THEN d
    ELSE LET h == _hash_full(Head(list).path) IN
         group_by_full_hash(Tail(list),
                            IF h.ok THEN dict_append(d, h.digest, Head(list)) ELSE d)

\* line 114
keep_group(group) == Len(group) >= 2

RECURSIVE make_results(_)
\* lines 112-121
make_results(d) ==
    IF d = <<>> THEN <<>>
    ELSE (IF keep_group(Head(d).group)
          THEN <<[hash |-> Head(d).key, size |-> Head(d).group[1].size,
                  files |-> Head(d).group]>>
          ELSE <<>>) \o make_results(Tail(d))

\* lines 26-28
count(g) == Len(g.files)

\* lines 30-33
wasted_bytes(g) == g.size * (count(g) - 1)

insert_m(sorted, g) == Append(sorted, g)

\* list.sort(key=wasted_bytes, reverse=True) puts g behind every group that
\* wastes as much or more: the sort is stable
insert(sorted, g) ==
    LET c == Cardinality({i \in DOMAIN sorted : wasted_bytes(sorted[i]) >= wasted_bytes(g)})
    IN SubSeq(sorted, 1, c) \o <<g>> \o SubSeq(sorted, c + 1, Len(sorted))

RECURSIVE sort(_, _)
\* line 123
sort(list, sorted) ==
    IF list = <<>> THEN sorted
    ELSE sort(Tail(list), insert(sorted, Head(list)))

\* the reads a stage makes: one open per record of the list
opens(list, kind) == [i \in DOMAIN list |-> <<list[i], kind>>]

\* what a record and its file can be: any recorded size over any content, the
\* recorded size being the size at scan time, or a file that was and is empty
Scanned == (DupSizes \X Contents) \cup {<<0, Empty>>}

\* the state find_duplicates is called in
InitDup ==
    /\ \E n \in 0..MaxRecords :
          /\ \E sc \in [1..n -> Scanned], twice \in {i \in {0, 1} : i < n} :
                \* with twice the last record is about the path of the first
                /\ dup_files = [i \in 1..n |->
                                  [path |-> IF twice = 1 /\ i = n THEN PathNames[1]
                                            ELSE PathNames[i],
                                   size |-> sc[i][1]]]
                /\ content = [p \in DupPaths |->
                                 IF \E i \in 1..n : PathNames[i] = p /\ ~(twice = 1 /\ i = n)
                                 THEN sc[CHOOSE i \in 1..n : PathNames[i] = p][2]
                                 ELSE One]
          /\ unreadable \in {<<>>} \cup ({PathNames[i] : i \in 1..n} \X {"partial", "full"})
    /\ min_size \in DupSizes
    /\ dpc = "stage1"
    /\ candidates = <<>>
    /\ final_candidates = <<>>
    /\ by_full_hash = <<>>
    /\ results = <<>>
    /\ opened = <<>>

\* lines 76-88
find_duplicates_stage1 ==
    /\ dpc = "stage1"
    /\ candidates' = extend_groups(group_by_size(dup_files, min_size, <<>>))
    /\ dpc' = IF candidates' = <<>> THEN "returned" ELSE "stage2"
    /\ UNCHANGED <<dup_files, content, unreadable, min_size, final_candidates,
                   by_full_hash, results, opened, scanVars, cleanVars, safeVars, cliVars>>

\* lines 90-103
find_duplicates_stage2 ==
    /\ dpc = "stage2"
    /\ final_candidates' = extend_groups(group_by_quick_hash(candidates, <<>>))
    /\ opened' = opened \o opens(candidates, "partial")
    /\ dpc' = IF final_candidates' = <<>> THEN "returned" ELSE "stage3"
    /\ UNCHANGED <<dup_files, content, unreadable, min_size, candidates,
                   by_full_hash, results, scanVars, cleanVars, safeVars, cliVars>>

\* lines 105-110
find_duplicates_stage3 ==
    /\ dpc = "stage3"
    /\ by_full_hash' = group_by_full_hash(final_candidates, <<>>)
    /\ opened' = opened \o opens(final_candidates, "full")
    /\ dpc' = "results"
    /\ UNCHANGED <<dup_files, content, unreadable, min_size, candidates,
                   final_candidates, results, scanVars, cleanVars, safeVars, cliVars>>

\* lines 112-124
find_duplicates_return ==
    /\ dpc = "results"
    /\ results' = sort(make_results(by_full_hash), <<>>)
    /\ dpc' = "returned"
    /\ UNCHANGED <<dup_files, content, unreadable, min_size, candidates,
                   final_candidates, by_full_hash, opened, scanVars, cleanVars, safeVars, cliVars>>

----------------------------------------------------------------------------
(* safelist.py: is_safe called on its own *)

\* the longest path is_safe is called with
MaxDepth == 3

\* the component names of the paths is_safe is called with
SafeNames == {"etc", "ETC", "var", "Windows", "root", "tmp", ".ssh", ".SSH",
              ".bashrc", ".BASHRC", "a.txt"}

SafePaths == SeqsUpTo(SafeNames, MaxDepth)

\* the state is_safe is called in
InitSafe ==
    /\ safe_path \in SafePaths
    /\ safe_kind \in {"reg", "dir", "symlink", "absent"}
    /\ safe_system \in Systems
    /\ safe_pc = "call"
    /\ safe_result = FALSE

\* lines 81-102
is_safe_return ==
    /\ safe_pc = "call"
    /\ safe_result' = is_safe(safe_path, safe_kind, safe_system)
    /\ safe_pc' = "returned"
    /\ UNCHANGED <<safe_path, safe_kind, safe_system, scanVars, cleanVars, dupVars, cliVars>>

----------------------------------------------------------------------------
(* cli.py: the clean command, direct and config-driven *)

\* the most rules a config file holds
MaxRules == 2

\* the files a target directory can hold
CliFiles == {"x", "y"}

\* a target: whether the path is a directory, whether a filter criterion is
\* given for it, the files scan returns for it and the files the criteria let
\* through
Targets ==
    {[is_dir |-> FALSE, filters |-> f, found |-> {}, match |-> CliFiles] : f \in BOOLEAN}
        \cup {[is_dir |-> TRUE, filters |-> FALSE, found |-> fnd, match |-> CliFiles] :
                 fnd \in SUBSET CliFiles}
        \cup {[is_dir |-> TRUE, filters |-> TRUE, found |-> fnd, match |-> m] :
                 fnd \in SUBSET CliFiles, m \in SUBSET CliFiles}

\* lines 147-157, 212-219: each filter that is given is applied to result.files
filtered(t) == IF t.filters THEN t.found \cap t.match ELSE t.found

\* line 139: any([older_than, larger_than, smaller_than, pattern])
has_filter(t) == t.filters

may_delete_m(yes, ans) == TRUE

\* lines 169-173, 237-241: --yes, or the prompt answered with yes
may_delete(yes, ans) == yes \/ ans

\* the state the clean command starts in
InitCli ==
    /\ args \in [config : {"none", "error", "ok"}, filters : BOOLEAN,
                 execute : BOOLEAN, yes : BOOLEAN, trash : BOOLEAN]
    /\ rules \in SeqsUpTo(Targets, MaxRules)
    /\ args.config = "none" => Len(rules) = 1 /\ rules[1].filters = args.filters
    /\ args.config = "error" => rules = <<>>
    /\ answer \in BOOLEAN
    /\ cpc = "clean"
    /\ rule_idx = 1
    /\ seen_paths = {}
    /\ exit_code = 0
    /\ cli_log = <<>>

\* lines 131-133: clean hands over to _clean_from_config
clean_config ==
    /\ cpc = "clean"
    /\ args.config # "none"
    /\ cpc' = "load"
    /\ UNCHANGED <<args, rules, answer, rule_idx, seen_paths, exit_code, cli_log,
                   scanVars, cleanVars, dupVars, safeVars>>

\* lines 135-137
clean_not_a_directory ==
    /\ cpc = "clean"
    /\ args.config = "none"
    /\ ~rules[1].is_dir
    /\ cli_log' = Append(cli_log, "Error: not a directory")
    /\ exit_code' = 1
    /\ cpc' = "exit"
    /\ UNCHANGED <<args, rules, answer, rule_idx, seen_paths,
                   scanVars, cleanVars, dupVars, safeVars>>

\* lines 139-141
clean_no_filter ==
    /\ cpc = "clean"
    /\ args.config = "none"
    /\ rules[1].is_dir
    /\ ~has_filter(rules[1])
    /\ cli_log' = Append(cli_log, "Error: Specify at least one filter")
    /\ exit_code' = 1
    /\ cpc' = "exit"
    /\ UNCHANGED <<args, rules, answer, rule_idx, seen_paths,
                   scanVars, cleanVars, dupVars, safeVars>>

\* lines 143-157
clean_scan ==
    /\ cpc = "clean"
    /\ args.config = "none"
    /\ rules[1].is_dir
    /\ has_filter(rules[1])
    /\ cli_log' = Append(cli_log, "scan")
    /\ seen_paths' = filtered(rules[1])
    /\ cpc' = "files"
    /\ UNCHANGED <<args, rules, answer, rule_idx, exit_code,
                   scanVars, cleanVars, dupVars, safeVars>>

\* lines 159-161
clean_no_match ==
    /\ cpc = "files"
    /\ seen_paths = {}
    /\ cli_log' = Append(cli_log, "No files matched")
    /\ cpc' = "exit"
    /\ UNCHANGED <<args, rules, answer, rule_idx, seen_paths, exit_code,
                   scanVars, cleanVars, dupVars, safeVars>>

\* lines 163-167
clean_dry_run ==
    /\ cpc = "files"
    /\ seen_paths # {}
    /\ ~args.execute
    /\ cli_log' = cli_log \o <<"table", "DRY RUN">>
    /\ cpc' = "exit"
    /\ UNCHANGED <<args, rules, answer, rule_idx, seen_paths, exit_code,
                   scanVars, cleanVars, dupVars, safeVars>>

\* lines 163-173
clean_confirm ==
    /\ cpc = "files"
    /\ seen_paths # {}
    /\ args.execute
    /\ IF may_delete(args.yes, answer)
       THEN /\ cli_log' = cli_log \o <<"table">> \o (IF args.yes THEN <<>> ELSE <<"ask">>)
            /\ cpc' = "delete"
       ELSE /\ cli_log' = cli_log \o <<"table", "ask", "Cancelled">>
            /\ cpc' = "exit"
    /\ UNCHANGED <<args, rules, answer, rule_idx, seen_paths, exit_code,
                   scanVars, cleanVars, dupVars, safeVars>>

\* lines 175-181: delete_files(files, use_trash=trash)
clean_delete ==
    /\ cpc = "delete"
    /\ cli_log' = cli_log \o <<"delete_files", "Deleted">>
    /\ cpc' = "exit"
    /\ UNCHANGED <<args, rules, answer, rule_idx, seen_paths, exit_code,
                   scanVars, cleanVars, dupVars, safeVars>>

\* lines 191-198
clean_from_config_load ==
    /\ cpc = "load"
    /\ IF args.config = "error"
       THEN /\ cli_log' = Append(cli_log, "Error: config")
            /\ exit_code' = 1
            /\ cpc' = "exit"
       ELSE IF rules = <<>>
       THEN /\ cli_log' = Append(cli_log, "No rules found in config")
            /\ exit_code' = exit_code
            /\ cpc' = "exit"
       ELSE /\ UNCHANGED <<cli_log, exit_code>>
            /\ cpc' = "rules"
    /\ UNCHANGED <<args, rules, answer, rule_idx, seen_paths,
                   scanVars, cleanVars, dupVars, safeVars>>

\* lines 201-207: the path of the rule is not a directory
clean_from_config_skip ==
    /\ cpc = "rules"
    /\ rule_idx <= Len(rules)
    /\ ~rules[rule_idx].is_dir
    /\ cli_log' = Append(cli_log, "Skipping")
    /\ rule_idx' = rule_idx + 1
    /\ UNCHANGED <<args, rules, answer, cpc, seen_paths, exit_code,
                   scanVars, cleanVars, dupVars, safeVars>>

\* lines 209-223
clean_from_config_scan ==
    /\ cpc = "rules"
    /\ rule_idx <= Len(rules)
    /\ rules[rule_idx].is_dir
    /\ cli_log' = Append(cli_log, "scan")
    /\ seen_paths' = seen_paths \cup filtered(rules[rule_idx])
    /\ rule_idx' = rule_idx + 1
    /\ UNCHANGED <<args, rules, answer, cpc, exit_code,
                   scanVars, cleanVars, dupVars, safeVars>>

\* lines 225-229
clean_from_config_no_match ==
    /\ cpc = "rules"
    /\ rule_idx > Len(rules)
    /\ seen_paths = {}
    /\ cli_log' = Append(cli_log, "No files matched")
    /\ cpc' = "exit"
    /\ UNCHANGED <<args, rules, answer, rule_idx, seen_paths, exit_code,
                   scanVars, cleanVars, dupVars, safeVars>>

\* lines 231-235
clean_from_config_dry_run ==
    /\ cpc = "rules"
    /\ rule_idx > Len(rules)
    /\ seen_paths # {}
    /\ ~args.execute
    /\ cli_log' = cli_log \o <<"table", "DRY RUN">>
    /\ cpc' = "exit"
    /\ UNCHANGED <<args, rules, answer, rule_idx, seen_paths, exit_code,
                   scanVars, cleanVars, dupVars, safeVars>>

\* lines 231-241
clean_from_config_confirm ==
    /\ cpc = "rules"
    /\ rule_idx > Len(rules)
    /\ seen_paths # {}
    /\ args.execute
    /\ IF may_delete(args.yes, answer)
       THEN /\ cli_log' = cli_log \o <<"table">> \o (IF args.yes THEN <<>> ELSE <<"ask">>)
            /\ cpc' = "config_delete"
       ELSE /\ cli_log' = cli_log \o <<"table", "ask", "Cancelled">>
            /\ cpc' = "exit"
    /\ UNCHANGED <<args, rules, answer, rule_idx, seen_paths, exit_code,
                   scanVars, cleanVars, dupVars, safeVars>>

\* lines 243-247: delete_files(all_files, use_trash=trash)
clean_from_config_delete ==
    /\ cpc = "config_delete"
    /\ cli_log' = cli_log \o <<"delete_files", "Deleted">>
    /\ cpc' = "exit"
    /\ UNCHANGED <<args, rules, answer, rule_idx, seen_paths, exit_code,
                   scanVars, cleanVars, dupVars, safeVars>>

\* no clean command is running
CliIdle ==
    /\ args = [config |-> "none", filters |-> FALSE, execute |-> FALSE,
               yes |-> FALSE, trash |-> TRUE]
    /\ rules = <<>>
    /\ answer = FALSE
    /\ cpc = "idle"
    /\ rule_idx = 1
    /\ seen_paths = {}
    /\ exit_code = 0
    /\ cli_log = <<>>

\* is_safe is not being called on its own
SafeIdle ==
    /\ safe_path = <<>>
    /\ safe_kind = "dir"
    /\ safe_system = "Linux"
    /\ safe_pc = "idle"
    /\ safe_result = FALSE

\* no find_duplicates is running while the scanner or the deleter is checked
DupIdle ==
    /\ dup_files = <<>>
    /\ content = [p \in DupPaths |-> One]
    /\ unreadable = <<>>
    /\ min_size = 1
    /\ dpc = "idle"
    /\ candidates = <<>>
    /\ final_candidates = <<>>
    /\ by_full_hash = <<>>
    /\ results = <<>>
    /\ opened = <<>>

\* no scan is running while delete_files is checked (platform.system() is not
\* read by delete_files)
ScanIdle ==
    /\ system = "Linux"
    /\ tree = [e \in Entries |-> CHOOSE k \in KindsOf(e) : TRUE]
    /\ root = ScanRoot
    /\ reversed = FALSE
    /\ follow_symlinks = FALSE
    /\ skip_hidden = FALSE
    /\ respect_safelist = TRUE
    /\ on_progress = FALSE
    /\ workers = 1
    /\ spc = "idle"
    /\ walk = NoWalk
    /\ root_files = <<>>
    /\ subdirs = <<>>
    /\ tasks = <<>>
    /\ batch = NoBatch
    /\ result = EmptyResult
    /\ progress = <<>>

\* no delete_files is running while scan is checked
CleanIdle ==
    /\ disk = [p \in CleanPaths |-> "reg"]
    /\ files = <<>>
    /\ use_trash = TRUE
    /\ dry_run = FALSE
    /\ idx = 1
    /\ pc = "idle"
    /\ deleted = <<>>
    /\ failed = <<>>
    /\ skipped = <<>>
    /\ total_freed = 0
    /\ outcome = <<>>
    /\ calls = <<>>

Init == InitClean /\ ScanIdle /\ DupIdle /\ SafeIdle /\ CliIdle

Next == NextClean

Spec == Init /\ [][Next]_vars

ScanInit == InitScan /\ CleanIdle /\ DupIdle /\ SafeIdle /\ CliIdle

ScanNext ==
    \/ scan
    \/ scan_single_pop
    \/ scan_single_entry
    \/ scan_single_return
    \/ scan_parallel_root_entry
    \/ scan_parallel_process_root
    \/ _process_entries
    \/ scan_parallel_submit
    \/ \E i \in DOMAIN tasks : worker_start(i)
    \/ \E i \in DOMAIN tasks : worker_done(i)
    \/ scan_parallel_merge
    \/ scan_parallel_merged
    \/ scan_parallel_return

ScanSpec == ScanInit /\ [][ScanNext]_vars

\* scan called with follow_symlinks false; the main thread and the pool
\* threads keep running: a step that can be taken is taken
ScanFairInit == ScanInit /\ ~follow_symlinks /\ ~on_progress

\* the steps of the thread that called scan
scan_main ==
    \/ scan
    \/ scan_single_pop
    \/ scan_single_entry
    \/ scan_single_return
    \/ scan_parallel_root_entry
    \/ scan_parallel_process_root
    \/ _process_entries
    \/ scan_parallel_submit
    \/ scan_parallel_merge
    \/ scan_parallel_merged
    \/ scan_parallel_return

\* the steps of the pool thread running the i-th submitted subdirectory
scan_worker(i) == i \in DOMAIN tasks /\ (worker_start(i) \/ worker_done(i))

\* the root has no more subdirectories than entries
TaskIds == 1..Len(ChildSeq(ScanRoot))

\* the calling thread and every pool thread keep running while they can
ScanFairSpec ==
    /\ ScanFairInit
    /\ [][ScanNext]_vars
    /\ WF_vars(scan_main)
    /\ \A i \in TaskIds : WF_vars(scan_worker(i))

DupInit == InitDup /\ ScanIdle /\ CleanIdle /\ SafeIdle /\ CliIdle

DupNext ==
    \/ find_duplicates_stage1
    \/ find_duplicates_stage2
    \/ find_duplicates_stage3
    \/ find_duplicates_return

DupSpec == DupInit /\ [][DupNext]_vars

SafeInit == InitSafe /\ ScanIdle /\ CleanIdle /\ DupIdle /\ CliIdle

SafeNext == is_safe_return

SafeSpec == SafeInit /\ [][SafeNext]_vars

CliInit == InitCli /\ ScanIdle /\ CleanIdle /\ DupIdle /\ SafeIdle

CliNext ==
    \/ clean_config
    \/ clean_not_a_directory
    \/ clean_no_filter
    \/ clean_scan
    \/ clean_no_match
    \/ clean_dry_run
    \/ clean_confirm
    \/ clean_delete
    \/ clean_from_config_load
    \/ clean_from_config_skip
    \/ clean_from_config_scan
    \/ clean_from_config_no_match
    \/ clean_from_config_dry_run
    \/ clean_from_config_confirm
    \/ clean_from_config_delete

CliSpec == CliInit /\ [][CliNext]_vars

----------------------------------------------------------------------------
(* Properties of cleaner.delete_files *)

Live == ~dry_run

\* the number of entries of a sequence whose path is p
Occurs(seq, p, pathOf(_)) == Cardinality({i \in DOMAIN seq : pathOf(seq[i]) = p})

PathOfRecord(r) == r.path
PathOfPair(e) == e[1]
PathOfPath(q) == q

\* the input positions whose record went to the list named tag, in input order
Positions(tag) == {i \in DOMAIN outcome : outcome[i] = tag}

RECURSIVE PathsAt(_, _)
\* the paths of the input records at the positions of S within 1..n, in order
PathsAt(S, n) ==
    IF n = 0 THEN <<>>
    ELSE IF n \in S THEN Append(PathsAt(S, n - 1), files[n].path)
    ELSE PathsAt(S, n - 1)

RECURSIVE SizesAt(_)
\* the sum of the recorded sizes of the input records at the positions of S
SizesAt(S) ==
    IF S = {} THEN 0
    ELSE LET x == CHOOSE y \in S : TRUE IN files[x].size + SizesAt(S \ {x})

\* the deleter, not the other process, takes this step
DeleterStep == idx' # idx \/ pc' # pc

\* C1: when delete_files returns, every input record is in exactly one of
\* deleted, failed, skipped: the three lengths add up to the input length and
\* every path occurs in the three lists together as often as in the input.
C1_EveryRecordInOneList ==
    pc = "returned" =>
        /\ Len(deleted) + Len(failed) + Len(skipped) = Len(files)
        /\ \A p \in CleanPaths :
              Occurs(deleted, p, PathOfPath) + Occurs(failed, p, PathOfPair)
                  + Occurs(skipped, p, PathOfPair)
              = Occurs(files, p, PathOfRecord)

C1_Witness ==
    /\ pc = "returned"
    /\ Len(files) = 2
    /\ Len(failed) = 1
    /\ Len(skipped) = 1

\* C2: in trash and permanent mode, with another process free to change the
\* path at any time, every object delete_files removes is a regular file
\* (not a symlink, directory or device) at the instant of the removal call.
C2_RemovedObjectIsRegular ==
    \A c \in DOMAIN calls : calls[c].ok => calls[c].kind = "reg"

\* C3: on no platform does delete_files remove or trash a file whose path
\* is protected (is_safe true at the instant of the call).
C3_NeverRemovesProtected ==
    \A sys \in Systems : \A c \in DOMAIN calls :
        calls[c].ok => ~is_safe(files[calls[c].rec].path, calls[c].kind, sys)

\* C4: in a live mode, a path that is a symlink when is_symlink looks at it
\* is skipped with reason "symlink", and a path that is a non-regular object
\* when lstat looks at it is skipped with reason "no longer a regular file";
\* in both cases no removal call is made, the disk and total_freed are left
\* alone and the loop moves to the next record.
C4_NonRegularIsSkipped ==
    [][(Live /\ DeleterStep /\ idx <= Len(files)) =>
         /\ (pc = "loop" /\ disk[fi.path] = "symlink") =>
               /\ skipped' = Append(skipped, <<fi.path, "symlink">>)
               /\ UNCHANGED <<calls, disk, total_freed, deleted, failed>>
               /\ idx' = idx + 1 /\ pc' = "loop"
         /\ (pc = "lstat" /\ disk[fi.path] \in {"symlink", "dir", "other"}) =>
               /\ skipped' = Append(skipped, <<fi.path, "no longer a regular file">>)
               /\ UNCHANGED <<calls, disk, total_freed, deleted, failed>>
               /\ idx' = idx + 1 /\ pc' = "loop"
      ]_vars

C4_Witness ==
    /\ pc = "returned"
    /\ Live
    /\ Len(skipped) = 2
    /\ skipped[1][2] = "symlink"
    /\ skipped[2][2] = "no longer a regular file"
    /\ calls = <<>>
    /\ total_freed = 0

\* C5: with dry_run true, whatever use_trash is, delete_files makes no
\* removal call and changes nothing on disk; after each record deleted holds
\* the input paths so far in input order, failed and skipped are empty and
\* total_freed is the sum of the sizes so far (of all of them at the return).
C5_DryRunHasNoEffect ==
    dry_run =>
        /\ calls = <<>>
        /\ failed = <<>>
        /\ skipped = <<>>
        /\ pc \in {"loop", "returned"}
        /\ deleted = [i \in 1..(idx - 1) |-> files[i].path]
        /\ total_freed = SumSizes(SubSeq(files, 1, idx - 1))
        /\ pc = "returned" => idx - 1 = Len(files)

C5_Witness ==
    /\ dry_run
    /\ ~use_trash
    /\ pc = "returned"
    /\ Len(files) = 2
    /\ files[1].path # files[2].path
    /\ total_freed = 3

\* C6: in a live mode, a path that does not exist when lstat or the removal
\* call looks at it puts its record in failed with an error text, and leaves
\* deleted, skipped and total_freed alone.
C6_MissingPathFails ==
    [][(Live /\ DeleterStep /\ pc \in {"lstat", "act"} /\ disk[fi.path] = "absent") =>
         /\ Len(failed') = Len(failed) + 1
         /\ failed'[Len(failed')][1] = fi.path
         /\ failed'[Len(failed')][2] # ""
         /\ UNCHANGED <<deleted, skipped, total_freed>>
      ]_vars

C6_Witness ==
    /\ pc = "returned"
    /\ Live
    /\ Len(files) = 2
    /\ Len(deleted) = 1
    /\ Len(failed) = 1
    /\ failed[1][2] = "ENOENT"
    /\ calls = <<[rec |-> 1, prim |-> primitive(use_trash), kind |-> "reg", ok |-> TRUE]>>

\* C7: no OS-level failure on one record aborts the batch (delete_files never
\* raises), and deleted, failed and skipped list their records in input order.
C7_NeverAborts ==
    /\ pc # "raised"
    /\ deleted = PathsAt(Positions("deleted"), Len(outcome))
    /\ \A i \in DOMAIN failed :
          failed[i][1] = PathsAt(Positions("failed"), Len(outcome))[i]
    /\ \A i \in DOMAIN skipped :
          skipped[i][1] = PathsAt(Positions("skipped"), Len(outcome))[i]

\* C8: after every processed prefix, in every mode, total_freed is the sum of
\* the recorded sizes of exactly the records that are in deleted.
C8_FreedIsSumOfDeleted ==
    /\ total_freed = SizesAt(Positions("deleted"))
    /\ deleted = PathsAt(Positions("deleted"), Len(outcome))

C8_Witness ==
    /\ Len(outcome) = 2
    /\ outcome[1] = "failed"
    /\ outcome[2] = "deleted"
    /\ files[1].size = 2
    /\ files[2].size = 1
    /\ total_freed = 1

\* C9: every removal call uses the primitive use_trash selects (send2trash
\* when true, os.remove when false), no record gets more than one call, and
\* in a live mode a record is in deleted exactly when its call succeeded.
C9_PrimitiveFollowsMode ==
    /\ \A c \in DOMAIN calls :
          calls[c].prim = (IF use_trash THEN "send2trash" ELSE "os.remove")
    /\ \A c, d \in DOMAIN calls : calls[c].rec = calls[d].rec => c = d
    /\ Live => \A r \in DOMAIN outcome :
          outcome[r] = "deleted" <=> \E c \in DOMAIN calls : calls[c].rec = r /\ calls[c].ok

C9_Witness ==
    /\ use_trash
    /\ pc = "returned"
    /\ Len(calls) = 2
    /\ calls[1].ok
    /\ ~calls[2].ok
    /\ outcome = <<"deleted", "failed">>

----------------------------------------------------------------------------
(* Properties of scanner.scan *)

\* C10: at every point of a scan and in the returned ScanResult, sequential
\* or parallel, total_size is the sum of the sizes of the records in files
\* and file_count is the number of records in files.
C10_TotalsMatchFiles ==
    /\ result.total_size = SumSizes(result.files)
    /\ file_count(result) = Len(result.files)

C10_Witness ==
    /\ spc = "merge"
    /\ workers > 1
    /\ Len(result.files) >= 2
    /\ result.error_count >= 1
    /\ result.skipped_safe >= 1
    /\ result.total_size = SumSizes(result.files)

\* ---- what a scan of the tree has to find, stated on the tree itself ----

\* every path of the tree, the ones through the directory link included
CandidatePaths ==
    Entries \cup {<<"lnk">> \o SubSeq(e, 2, Len(e)) :
                    e \in {x \in Entries : Len(x) >= 2 /\ x[1] = LinkDirTarget[1]}}

RECURSIVE Reached(_)
\* the scan comes across the entry p: it is listed by a directory the scan
\* opened, and is not passed over as hidden
Reached(p) ==
    /\ p \in CandidatePaths
    /\ ~(skip_hidden /\ startswith_dot(name(p)))
    /\ IF parent(p) = ScanRoot
       THEN root = ScanRoot
       ELSE /\ Reached(parent(p))
            /\ is_dir(parent(p), follow_symlinks)
            /\ can_scandir(parent(p))

\* the file entries the scan comes across
FilesReached == {p \in CandidatePaths : Reached(p) /\ is_file(p, follow_symlinks)}

\* the directories the scan comes to and cannot open, the root included
DirsNotOpened ==
    {d \in CandidatePaths : Reached(d) /\ is_dir(d, follow_symlinks) /\ ~can_scandir(d)}
        \cup (IF root = ScanRoot THEN {} ELSE {root})

\* a component of p below the root starts with "."
HiddenPath(p) == \E i \in 1..Len(p) : startswith_dot(p[i])

PathsOf(list) == {list[i].path : i \in DOMAIN list}

\* what scan returns with workers = 1 on the same tree with the same options
SequentialResult ==
    add_all(EmptyResult, _walk_files([NoWalk EXCEPT !.stack = <<root>>], <<>>))

\* C11: on an unchanging tree, for every workers > 1 and every completion
\* order, the parallel scan returns the same records (order aside), the same
\* total_size, error_count and skipped_safe as the sequential scan.
C11_ParallelEqualsSequential ==
    (spc = "returned" /\ workers > 1) =>
        /\ PathsOf(result.files) = PathsOf(SequentialResult.files)
        /\ Len(result.files) = Len(SequentialResult.files)
        /\ \A i \in DOMAIN result.files :
              \E j \in DOMAIN SequentialResult.files :
                  result.files[i] = SequentialResult.files[j]
        /\ result.total_size = SequentialResult.total_size
        /\ result.error_count = SequentialResult.error_count
        /\ result.skipped_safe = SequentialResult.skipped_safe

C11_Witness ==
    /\ spc = "returned"
    /\ workers > 1
    /\ Len(tasks) >= 3
    /\ Len(result.files) >= 3
    /\ result.files # SequentialResult.files
    /\ result.error_count >= 1
    /\ result.skipped_safe >= 1

\* C12: with a callback supplied, it has been called exactly once for every
\* positive multiple of the batch size the number of committed records has
\* reached, with that count and the total size of the records committed up
\* to it; without a callback nothing is called.
C12_ProgressAtBatchBoundaries ==
    IF on_progress
    THEN /\ Len(progress) = file_count(result) \div _PROGRESS_INTERVAL
         /\ \A k \in DOMAIN progress :
               progress[k] = <<k * _PROGRESS_INTERVAL,
                               SumSizes(SubSeq(result.files, 1, k * _PROGRESS_INTERVAL))>>
    ELSE progress = <<>>

C12_Witness ==
    /\ on_progress
    /\ workers > 1
    /\ spc = "merge"
    /\ Len(progress) >= 2
    /\ result.error_count >= 1
    /\ file_count(result) % _PROGRESS_INTERVAL = 0

\* C13: when scan returns, error_count is the number of entries whose stat
\* failed plus the number of directories that could not be opened.
C13_EveryFailureCounted ==
    spc = "returned" =>
        result.error_count
          = Cardinality({p \in FilesReached : ~stat_entry(p, follow_symlinks).ok})
              + Cardinality(DirsNotOpened)

\* C14: scan returns a result only for a root that is a directory; a missing
\* root or a root that is a file ends in an error instead.
C14_BadRootAborts ==
    spc = "returned" => root = ScanRoot

\* C15: with respect_safelist no record of the result is protected and, at
\* the return, skipped_safe is the number of file entries come across whose
\* path is protected; without it skipped_safe stays 0 and every protected
\* file whose stat succeeded is in the result.
C15_ProtectedAreCounted ==
    IF respect_safelist
    THEN /\ \A i \in DOMAIN result.files : ~is_safe_entry(result.files[i].path)
         /\ spc = "returned" =>
               result.skipped_safe
                 = Cardinality({p \in FilesReached : is_safe_entry(p)})
    ELSE /\ result.skipped_safe = 0
         /\ spc = "returned" =>
               \A p \in FilesReached :
                   (is_safe_entry(p) /\ stat_entry(p, follow_symlinks).ok)
                       => p \in PathsOf(result.files)

C15_Witness ==
    /\ respect_safelist
    /\ spc = "returned"
    /\ workers > 1
    /\ result.skipped_safe >= 3
    /\ Len(result.files) >= 2

\* C16: with skip_hidden no record has a component below the root that
\* starts with ".", and at the return the three counters together hold
\* exactly the file entries that are not hidden; without skip_hidden they
\* hold every file entry, the hidden ones included.
C16_HiddenAreLeftOut ==
    /\ skip_hidden => \A i \in DOMAIN result.files : ~HiddenPath(result.files[i].path)
    /\ spc = "returned" =>
          /\ Len(result.files) + result.error_count + result.skipped_safe
                = Cardinality(FilesReached)
          /\ PathsOf(result.files) \subseteq FilesReached
          /\ ~skip_hidden =>
                \A p \in CandidatePaths :
                    (HiddenPath(p) /\ tree[entry_of(p)] = "file" /\ root = ScanRoot
                       /\ p \in Entries /\ ~respect_safelist)
                        => p \in PathsOf(result.files)

C16_Witness ==
    /\ skip_hidden
    /\ spc = "returned"
    /\ workers > 1
    /\ ~respect_safelist
    /\ Len(result.files) >= 3

\* C17: with follow_symlinks false no list of the scan (the result, the root
\* files, a worker's entries) holds an entry that is a symbolic link or lies
\* below one, and no directory reached through a link is queued for a walk.
C17_LinksAreNotCrossed ==
    ~follow_symlinks =>
        LET clean(p) == p[1] # "lnk" /\ tree[p] \notin {"link_file", "link_dir"}
        IN /\ \A i \in DOMAIN result.files : clean(result.files[i].path)
           /\ \A i \in DOMAIN root_files : clean(root_files[i].path)
           /\ \A t \in DOMAIN tasks : \A i \in DOMAIN tasks[t].out :
                 clean(tasks[t].out[i].path)
           /\ \A i \in DOMAIN subdirs : clean(subdirs[i])
           /\ \A i \in DOMAIN walk.stack :
                 walk.stack[i] = root \/ clean(walk.stack[i])

C17_Witness ==
    /\ ~follow_symlinks
    /\ spc = "returned"
    /\ tree[<<"tmp", "b.txt">>] = "link_file"
    /\ tree[<<"tmp">>] = "dir"
    /\ Len(result.files) >= 3

RECURSIVE TotalOut(_)
\* the number of entries the workers returned
TotalOut(ts) == IF ts = <<>> THEN 0 ELSE Len(Head(ts).out) + TotalOut(Tail(ts))

\* C26: in every step that changes the result or calls the callback, the
\* main thread is in its own loop over entries and no worker state changes;
\* a worker's step changes only its future; and at the return of a parallel
\* scan every entry the root listing and the workers produced has been
\* counted once.
C26_OnlyTheMergerMutates ==
    [][/\ (result' # result \/ progress' # progress) =>
             /\ spc \in {"single", "root_entries", "merge"}
             /\ spc' = spc
             /\ tasks' = tasks
             /\ file_count(result') + result'.error_count + result'.skipped_safe
                   = file_count(result) + result.error_count + result.skipped_safe + 1
       /\ tasks' # tasks => (result' = result /\ progress' = progress)
       /\ (workers > 1 /\ spc' = "returned") =>
             file_count(result') + result'.error_count + result'.skipped_safe
                = Len(root_files') + TotalOut(tasks')
      ]_vars

C26_Witness ==
    /\ workers > 1
    /\ spc = "merge"
    /\ Running # {}
    /\ batch.pos > 1
    /\ result.files # <<>>
    /\ \E i \in DOMAIN tasks : tasks[i].state = "merged"


\* the regular files under the root that skip_hidden does not leave out
RegularFilesUnderRoot ==
    {e \in Entries : /\ root = ScanRoot
                     /\ tree[e] \in {"file", "file_nostat"}
                     /\ ~(skip_hidden /\ HiddenPath(e))}

\* the three counters hold each path of S once and nothing else
AccountedOnce(S) ==
    /\ Len(result.files) + result.error_count + result.skipped_safe = Cardinality(S)
    /\ PathsOf(result.files) \subseteq S
    /\ \A i, j \in DOMAIN result.files :
          result.files[i].path = result.files[j].path => i = j

\* C28 as stated: with follow_symlinks false the scan returns, and then every
\* regular file under the root that is not left out as hidden is in exactly
\* one of files, skipped_safe and error_count, no path twice in files.
C28_TerminatesAllFilesAccounted ==
    /\ ~follow_symlinks ~> spc = "returned"
    /\ []((~follow_symlinks /\ spc = "returned") => AccountedOnce(RegularFilesUnderRoot))

\* what the scan does keep: with follow_symlinks false it returns, and then
\* every regular file that is not left out as hidden and lies in a directory
\* the scan could open, as every directory above it up to the root, is in
\* exactly one of files, skipped_safe and error_count, no path twice in files
C28_TerminatesListedFilesAccounted ==
    /\ ~follow_symlinks ~> spc = "returned"
    /\ []((~follow_symlinks /\ spc = "returned") =>
             AccountedOnce(RegularFilesUnderRoot \cap FilesReached))

C28_Witness ==
    /\ ~follow_symlinks
    /\ spc = "returned"
    /\ workers > 1
    /\ tree[<<"tmp">>] = "dir_noread"
    /\ skip_hidden
    /\ result.skipped_safe >= 1
    /\ Len(result.files) >= 2


----------------------------------------------------------------------------
(* Properties of rules.duplicate.find_duplicates *)

\* the path's read does not fail
Readable(p) == unreadable = <<>> \/ unreadable[1] # p

\* the records i and j of the input are members of one returned group
SameGroup(i, j) ==
    \E k \in DOMAIN results :
        /\ \E m \in DOMAIN results[k].files : results[k].files[m] = dup_files[i]
        /\ \E m \in DOMAIN results[k].files : results[k].files[m] = dup_files[j]

\* C18: every returned group has two members or more, every member carries
\* the size of the group, and every member's full-content hash is the hash of
\* the group; recorded sizes that no longer match the disk are included.
C18_GroupsAreUniform ==
    dpc = "returned" =>
        \A k \in DOMAIN results :
            /\ Len(results[k].files) >= 2
            /\ \A m \in DOMAIN results[k].files :
                  /\ results[k].files[m].size = results[k].size
                  /\ _hash_full(results[k].files[m].path)
                        = [ok |-> TRUE, digest |-> results[k].hash]

\* C19: of two records of readable files with a recorded size of min_size or
\* more, the two are in one returned group exactly when the two files hold
\* the same bytes.
C19_GroupedIffSameBytes ==
    dpc = "returned" =>
        \A i, j \in DOMAIN dup_files :
            (/\ i # j
             /\ Readable(dup_files[i].path) /\ Readable(dup_files[j].path)
             /\ dup_files[i].size >= min_size /\ dup_files[j].size >= min_size)
                => (SameGroup(i, j)
                      <=> content[dup_files[i].path] = content[dup_files[j].path])

\* C20: the returned groups are in non-increasing order of wasted bytes, the
\* wasted bytes of a group being its size times its member count less one.
C20_SortedByWaste ==
    dpc = "returned" =>
        \A i, j \in DOMAIN results :
            i < j => results[i].size * (Len(results[i].files) - 1)
                        >= results[j].size * (Len(results[j].files) - 1)

C20_Witness ==
    /\ dpc = "returned"
    /\ Len(results) >= 2
    /\ results # make_results(by_full_hash)
    /\ results[1].size * (Len(results[1].files) - 1)
          > results[2].size * (Len(results[2].files) - 1)

\* the record f is a member of a returned group
InSomeGroup(f) ==
    \E k \in DOMAIN results : \E m \in DOMAIN results[k].files : results[k].files[m] = f

\* C21: no member of a returned group has a recorded size below min_size (so
\* with min_size 1 no zero-byte record is a member), and a record whose
\* recorded size no other record of min_size or more shares is in no group.
C21_SmallAndLoneAreLeftOut ==
    dpc = "returned" =>
        /\ \A k \in DOMAIN results : \A m \in DOMAIN results[k].files :
              /\ results[k].files[m].size >= min_size
              /\ min_size = 1 => results[k].files[m].size # 0
        /\ \A i \in DOMAIN dup_files :
              (\A j \in DOMAIN dup_files :
                    j # i => ~(/\ dup_files[j].size = dup_files[i].size
                               /\ dup_files[j].size >= min_size))
                 => ~InSomeGroup(dup_files[i])

C21_Witness ==
    /\ dpc = "returned"
    /\ min_size = 1
    /\ results # <<>>
    /\ \E i, j \in DOMAIN dup_files :
          /\ i # j
          /\ dup_files[i].size = 0 /\ dup_files[j].size = 0
          /\ dup_files[i].path # dup_files[j].path
          /\ content[dup_files[i].path] = Empty /\ content[dup_files[j].path] = Empty
    /\ \A i \in DOMAIN dup_files : Readable(dup_files[i].path)

\* find_duplicates run from entry to return on the input list
find_duplicates_of(list) ==
    LET c == extend_groups(group_by_size(list, min_size, <<>>)) IN
    IF c = <<>> THEN <<>>
    ELSE LET fc == extend_groups(group_by_quick_hash(c, <<>>)) IN
         IF fc = <<>> THEN <<>>
         ELSE sort(make_results(group_by_full_hash(fc, <<>>)), <<>>)

\* the groups of a result, each taken as (hash, size, set of member records)
GroupsOf(res) ==
    {[hash |-> res[k].hash, size |-> res[k].size,
      files |-> {res[k].files[m] : m \in DOMAIN res[k].files}] : k \in DOMAIN res}

\* a read of the unreadable path was tried and failed
ReadFailed ==
    /\ unreadable # <<>>
    /\ \E k \in DOMAIN opened :
          opened[k][1].path = unreadable[1] /\ opened[k][2] = unreadable[2]

\* C22: when the read of a record failed, find_duplicates still returns, the
\* record is in no group, and the groups are those find_duplicates returns
\* for the input without the failed record.
C22_ReadFailureOnlyDrops ==
    (dpc = "returned" /\ ReadFailed) =>
        /\ \A i \in DOMAIN dup_files :
              dup_files[i].path = unreadable[1] => ~InSomeGroup(dup_files[i])
        /\ GroupsOf(results)
              = GroupsOf(find_duplicates_of(
                    SelectSeq(dup_files, LAMBDA f : f.path # unreadable[1])))


\* the input list taken in the order pi
reordered(pi) == [i \in DOMAIN dup_files |-> dup_files[pi[i]]]

\* C29: the returned set of groups, each taken as (hash, size, set of member
\* records), is the one find_duplicates returns for every permutation of the
\* same input records.
C29_OrderDoesNotMatter ==
    dpc = "returned" =>
        \A pi \in Permutations(DOMAIN dup_files) :
            GroupsOf(find_duplicates_of(reordered(pi))) = GroupsOf(results)

\* C30: the returned groups are pairwise disjoint, and within a group no two
\* members have the same path.
C30_GroupsDisjointPathsDistinct ==
    dpc = "returned" =>
        /\ \A k, l \in DOMAIN results :
              k # l => \A m \in DOMAIN results[k].files, n \in DOMAIN results[l].files :
                          results[k].files[m].path # results[l].files[n].path
        /\ \A k \in DOMAIN results :
              \A m, n \in DOMAIN results[k].files :
                  results[k].files[m].path = results[k].files[n].path => m = n

----------------------------------------------------------------------------
(* Properties of safelist.is_safe *)

\* rule 1: the file name, lower-cased, is a protected file name
ProtectedFileName(p) == p # <<>> /\ lower(p[Len(p)]) \in _SAFE_FILES

\* rule 2: the first component is a proper ancestor and its name, lower-cased,
\* is a protected directory of the platform
UnderSystemDir(p, sys) ==
    \E k \in 1..(Len(p) - 1) : k = 1 /\ lower(p[k]) \in _get_safe_dirs(sys)

\* rule 3: a proper ancestor with a sensitive name, as written, lies directly
\* in the home directory
UnderSensitiveDir(p) ==
    \E k \in 1..(Len(p) - 1) :
        p[k] \in _SENSITIVE_USER_DIRS /\ SubSeq(p, 1, k - 1) = home

\* C23: is_safe returns, also for a path that does not exist, and returns
\* true exactly when the resolved path meets rule 1, 2 or 3; a protected
\* directory name deeper than the root (than home, for rule 3) does not count.
C23_IsSafeIsTheThreeRules ==
    /\ safe_pc \in {"idle", "call", "returned"}
    /\ safe_pc = "returned" =>
          (safe_result <=>
              LET resolved == resolve(safe_path, safe_kind) IN
              \/ ProtectedFileName(resolved)
              \/ UnderSystemDir(resolved, safe_system)
              \/ UnderSensitiveDir(resolved))

C23_Witness ==
    /\ safe_pc = "returned"
    /\ safe_kind = "absent"
    /\ safe_system = "Darwin"
    /\ safe_path = <<"tmp", "var", "a.txt">>
    /\ ~safe_result

----------------------------------------------------------------------------
(* Properties of cli.clean *)

\* the positions of an event in the log
LogAt(ev) == {i \in DOMAIN cli_log : cli_log[i] = ev}

\* delete_files is called only with --execute, for a selection that is not
\* empty, after --yes or a prompt answered with yes, and the log runs
\* scan(s), table of matches, prompt if any, delete_files
DeleteIsGuarded ==
    \A d \in LogAt("delete_files") :
        /\ args.execute
        /\ seen_paths # {}
        /\ LogAt("scan") # {}
        /\ \E t \in LogAt("table") :
              /\ t < d
              /\ \A sc \in LogAt("scan") : sc < t
              /\ \/ args.yes /\ LogAt("ask") = {}
                 \/ answer /\ \E a \in LogAt("ask") : t < a /\ a < d

C25_NoDeleteWithoutFilter ==
    /\ (cpc = "exit" /\ ~args.filters) =>
          /\ exit_code = 1
          /\ LogAt("scan") = {}
          /\ LogAt("delete_files") = {}
    /\ LogAt("delete_files") # {} =>
          \A i \in DOMAIN rules : rules[i].is_dir => rules[i].filters

\* the number of times the record f was opened for the hash of the kind
Opens(f, kind) == Cardinality({k \in DOMAIN opened : opened[k] = <<f, kind>>})

\* the number of times the record f stands in the input
Occurrences(f) == Cardinality({i \in DOMAIN dup_files : dup_files[i] = f})

\* C27: a file is opened for the partial hash only for a record of min_size
\* or more whose recorded size another input record shares, and opened for
\* the full hash only for a record whose partial hash succeeded and whose
\* (size, partial hash) pair another such record shares; each record is
\* opened at most once per stage, so a record of a unique size is never opened.
C27_OnlySurvivorsAreRead ==
    \A k \in DOMAIN opened :
        LET f == opened[k][1]
            kind == opened[k][2]
        IN /\ Opens(f, kind) <= Occurrences(f)
           /\ \E i, j \in DOMAIN dup_files :
                 /\ i # j
                 /\ dup_files[i] = f
                 /\ f.size >= min_size
                 /\ dup_files[j].size = f.size
                 /\ kind = "full" =>
                       /\ _hash_partial(f.path).ok
                       /\ _hash_partial(dup_files[j].path).ok
                       /\ _hash_partial(f.path).digest
                             = _hash_partial(dup_files[j].path).digest

C27_Witness ==
    /\ dpc = "returned"
    /\ Len(dup_files) = 4
    /\ \E k \in DOMAIN opened : opened[k][2] = "full"
    /\ \E i \in DOMAIN dup_files :
          /\ dup_files[i].size >= min_size
          /\ Opens(dup_files[i], "partial") = 0
    /\ \E i \in DOMAIN dup_files :
          /\ Opens(dup_files[i], "partial") = 1
          /\ Opens(dup_files[i], "full") = 0

====
